---- MODULE Spec2Model ----
(***************************************************************************)
(* A model of the urlshortener application (urlshortener/views.py,         *)
(* urlshortener/models.py, urlshortener/serializers.py,                    *)
(* urlshortener/urls.py).                                                  *)
(*                                                                         *)
(* Strings are sequences of one-character strings, so that the string      *)
(* functions (normalisation, validation, whitespace trimming) are computed *)
(* character by character as the code computes them.                       *)
(*                                                                         *)
(* The table "urlrecords" is a sequence of rows; the position of a row is  *)
(* its primary key.  Request handlers run concurrently: every database     *)
(* access (exists(), get(), save()) is one atomic step, and the steps of   *)
(* different requests interleave freely.                                   *)
(***************************************************************************)
EXTENDS Integers, Sequences, FiniteSets, TLC

(***************************************************************************)
(* Characters                                                              *)
(***************************************************************************)
Lower ==
    {"a","b","c","d","e","f","g","h","i","j","k","l","m",
     "n","o","p","q","r","s","t","u","v","w","x","y","z"}

Upper ==
    {"A","B","C","D","E","F","G","H","I","J","K","L","M",
     "N","O","P","Q","R","S","T","U","V","W","X","Y","Z"}

Digits ==
    {"0","1","2","3","4","5","6","7","8","9"}

\* string.ascii_letters + string.digits
CHAR_SET ==
    Lower \cup Upper \cup Digits

\* urllib.parse.scheme_chars
SchemeChars ==
    CHAR_SET \cup {"+", "-", "."}

\* str.strip() / \s of the regular expressions
Whitespace ==
    {" ", "\n", "\t", "\r"}

(***************************************************************************)
(* String helpers (Python str operations on sequences of characters)       *)
(***************************************************************************)
\* s[i:] with a 1-based first index i
From(s, i) ==
    IF i > Len(s) THEN << >> ELSE SubSeq(s, i, Len(s))

\* s[:i-1]: the characters before the 1-based index i
Before(s, i) ==
    IF i <= 1 THEN << >> ELSE SubSeq(s, 1, i - 1)

\* The first index >= start of a character of s in cs, or 0 when there is none
FindAny(s, cs, start) ==
    LET hits == {i \in start..Len(s) : s[i] \in cs}
    IN  IF hits = {} THEN 0 ELSE CHOOSE i \in hits : \A j \in hits : i <= j

\* s.startswith(t)
StartsWith(s, t) ==
    /\ Len(s) >= Len(t)
    /\ SubSeq(s, 1, Len(t)) = t

\* s.find(t) + 1: the first index where t occurs in s, or 0
FindSeq(s, t) ==
    LET hits == {i \in 1..Len(s) : StartsWith(From(s, i), t)}
    IN  IF hits = {} THEN 0 ELSE CHOOSE i \in hits : \A j \in hits : i <= j

AllIn(s, cs) ==
    \A i \in 1..Len(s) : s[i] \in cs

\* str.strip()
Strip(s) ==
    LET keep == {i \in 1..Len(s) : s[i] \notin Whitespace}
    IN  IF keep = {} THEN << >>
        ELSE SubSeq(s, CHOOSE i \in keep : \A j \in keep : i <= j,
                       CHOOSE i \in keep : \A j \in keep : i >= j)

HTTP_PREFIX ==
    <<"h","t","t","p",":","/","/">>

(***************************************************************************)
(* urllib.parse.urlsplit / urlunsplit, as used by convert_to_absolute_url  *)
(* and by django.forms.URLField.  err models the ValueError urlsplit       *)
(* raises for an unbalanced IPv6 bracket in the network location.          *)
(***************************************************************************)
urlsplit(url) ==
    LET colon     == FindAny(url, {":"}, 1)
        hasScheme == /\ colon > 1
                     /\ url[1] \in Lower \cup Upper
                     /\ AllIn(Before(url, colon), SchemeChars)
        scheme    == IF hasScheme THEN Before(url, colon) ELSE << >>
        rest      == IF hasScheme THEN From(url, colon + 1) ELSE url
        hasNet    == StartsWith(rest, <<"/","/">>)
        delim     == FindAny(rest, {"/", "?", "#"}, 3)
        netloc    == IF ~hasNet THEN << >>
                     ELSE IF delim = 0 THEN From(rest, 3)
                     ELSE SubSeq(rest, 3, delim - 1)
        tail      == IF ~hasNet THEN rest
                     ELSE IF delim = 0 THEN << >> ELSE From(rest, delim)
        hash      == FindAny(tail, {"#"}, 1)
        fragment  == IF hash = 0 THEN << >> ELSE From(tail, hash + 1)
        noFrag    == IF hash = 0 THEN tail ELSE Before(tail, hash)
        qm        == FindAny(noFrag, {"?"}, 1)
        query     == IF qm = 0 THEN << >> ELSE From(noFrag, qm + 1)
        path      == IF qm = 0 THEN noFrag ELSE Before(noFrag, qm)
    IN  [err      |-> \/ ("[" \in {netloc[i] : i \in 1..Len(netloc)}
                            /\ "]" \notin {netloc[i] : i \in 1..Len(netloc)})
                      \/ ("]" \in {netloc[i] : i \in 1..Len(netloc)}
                            /\ "[" \notin {netloc[i] : i \in 1..Len(netloc)}),
         scheme   |-> scheme,
         netloc   |-> netloc,
         path     |-> path,
         query    |-> query,
         fragment |-> fragment]

\* urllib.parse.uses_netloc, restricted to the schemes of at most five letters
\* that the URLs of this model can spell
uses_netloc ==
    {<<"f","t","p">>, <<"h","t","t","p">>, <<"h","t","t","p","s">>,
     <<"f","i","l","e">>, <<"s","f","t","p">>, <<"w","s">>, <<"w","s","s">>}

urlunsplit(c) ==
    LET withNet ==
            IF c.netloc # << >> \/ (c.scheme \in uses_netloc /\ ~StartsWith(c.path, <<"/","/">>))
            THEN <<"/","/">> \o c.netloc
                 \o (IF c.path # << >> /\ c.path[1] # "/" THEN <<"/">> ELSE << >>)
                 \o c.path
            ELSE c.path
        withScheme == IF c.scheme # << >> THEN c.scheme \o <<":">> \o withNet ELSE withNet
        withQuery  == IF c.query # << >> THEN withScheme \o <<"?">> \o c.query ELSE withScheme
    IN  IF c.fragment # << >> THEN withQuery \o <<"#">> \o c.fragment ELSE withQuery

(***************************************************************************)
(* views.convert_to_absolute_url                                           *)
(***************************************************************************)
convert_to_absolute_url(url) ==
    LET parts == urlsplit(url)
    IN  IF parts.err THEN url                       \* except: return url
        ELSE IF parts.netloc # << >> THEN url
        ELSE HTTP_PREFIX \o url

(***************************************************************************)
(* django.core.validators.URLValidator, for URLs without user information, *)
(* IP literals, "localhost", hyphens and upper-case letters (the URLs of   *)
(* this model have none): scheme://host[:port][resource]                   *)
(***************************************************************************)
URL_SCHEMES ==
    {<<"h","t","t","p">>, <<"h","t","t","p","s">>, <<"f","t","p">>, <<"f","t","p","s">>}

\* The labels of a host name: host.split('.')
RECURSIVE Labels(_)
Labels(host) ==
    LET dot == FindAny(host, {"."}, 1)
    IN  IF dot = 0 THEN <<host>>
        ELSE <<Before(host, dot)>> \o Labels(From(host, dot + 1))

\* host_re: hostname_re domain_re tld_re, the tld with an optional final dot
IsHostName(host) ==
    LET h      == IF host # << >> /\ host[Len(host)] = "." THEN Before(host, Len(host))
                  ELSE host
        labels == Labels(h)
        n      == Len(labels)
    IN  /\ n >= 2
        /\ \A i \in 1..n : /\ labels[i] # << >>
                           /\ Len(labels[i]) <= 63
                           /\ AllIn(labels[i], Lower \cup Digits)
        /\ Len(labels[n]) >= 2
        /\ AllIn(labels[n], Lower)

URLValidator(value) ==
    LET sep    == FindSeq(value, <<":","/","/">>)     \* value.split('://')[0]
        scheme == IF sep = 0 THEN value ELSE Before(value, sep)
        after  == From(value, sep + 3)
        stop   == FindAny(after, {":", "/", "?", "#"}, 1)
        host   == IF stop = 0 THEN after ELSE Before(after, stop)
        rest   == IF stop = 0 THEN << >> ELSE From(after, stop)
        resAt  == FindAny(rest, {"/", "?", "#"}, 1)
        port   == IF rest # << >> /\ rest[1] = ":"
                  THEN (IF resAt = 0 THEN From(rest, 2) ELSE SubSeq(rest, 2, resAt - 1))
                  ELSE << >>
        hasPort == rest # << >> /\ rest[1] = ":"
        res    == IF resAt = 0 THEN << >> ELSE From(rest, resAt)
    IN  /\ sep # 0
        /\ scheme \in URL_SCHEMES
        /\ IsHostName(host)
        /\ Len(host) <= 253
        /\ hasPort => Len(port) \in 2..5 /\ AllIn(port, Digits)
        /\ \A i \in 1..Len(res) : res[i] \notin Whitespace

(***************************************************************************)
(* django.forms.URLField().clean(url): strip, required, to_python (a       *)
(* missing scheme becomes http, a missing network location is taken from   *)
(* the path), then URLValidator on the rebuilt URL.                        *)
(***************************************************************************)
\* to_python: "If no URL scheme given, assume http://"
assume_scheme(parts) ==
    IF parts.scheme = << >> THEN [parts EXCEPT !.scheme = <<"h","t","t","p">>] ELSE parts

\* to_python: "Assume that if no domain is provided, that the path segment
\* contains the domain", and split the rebuilt URL again
assume_netloc(parts) ==
    IF parts.netloc = << >>
    THEN urlsplit(urlunsplit([parts EXCEPT !.netloc = parts.path, !.path = << >>]))
    ELSE parts

to_python(value) ==
    assume_netloc(assume_scheme(urlsplit(value)))

URLField_clean(url) ==
    IF Strip(url) = << >> THEN [ok |-> FALSE, value |-> << >>]
    ELSE IF urlsplit(Strip(url)).err \/ to_python(Strip(url)).err
    THEN [ok |-> FALSE, value |-> Strip(url)]
    ELSE [ok |-> URLValidator(urlunsplit(to_python(Strip(url)))),
          value |-> urlunsplit(to_python(Strip(url)))]

\* models.MAX_LONG_URL_LENGTH and models.MAX_SHORT_URL_LENGTH
MAX_LONG_URL_LENGTH == 2048

MAX_SHORT_URL_LENGTH == 32

(***************************************************************************)
(* views.is_valid_long_url                                                 *)
(***************************************************************************)
is_valid_long_url(url) ==
    LET cleaned == URLField_clean(url)
    IN  IF ~cleaned.ok THEN FALSE
        ELSE IF Len(cleaned.value) > MAX_LONG_URL_LENGTH THEN FALSE
        ELSE TRUE

(***************************************************************************)
(* views.VALID_SHORT_URL_REGEX and views.is_valid_short_url.               *)
(* re.match of ^[A-Za-z0-9]{1,32}$ : in Python "$" matches at the end of   *)
(* the string and also just before a newline that ends the string.         *)
(***************************************************************************)
MatchesShortUrlRegex(s) ==
    LET body == IF s # << >> /\ s[Len(s)] = "\n" THEN Before(s, Len(s)) ELSE s
    IN  \/ /\ Len(s) \in 1..32
           /\ AllIn(s, CHAR_SET)
        \/ /\ Len(body) \in 1..32
           /\ AllIn(body, CHAR_SET)

API ==
    <<"a","p","i">>

\* Mutant of is_valid_short_url: the reserved word is not rejected
is_valid_short_url_NoReserved(short_url) ==
    IF ~MatchesShortUrlRegex(short_url) THEN FALSE
    ELSE TRUE

is_valid_short_url(short_url) ==
    IF ~MatchesShortUrlRegex(short_url) THEN FALSE
    ELSE IF short_url = API THEN FALSE
    ELSE TRUE

(***************************************************************************)
(* serializers.UrlRecordSerializer(data=data).is_valid(): the model        *)
(* serializer's URLField (URLValidator, max_length) for long_url and       *)
(* CharField (whitespace trimmed, not blank, max_length) for short_url.    *)
(* validated_data holds the trimmed values.                                *)
(***************************************************************************)
serializer_validated(long_url, short_url) ==
    [long_url |-> Strip(long_url), short_url |-> Strip(short_url), visit_count |-> 0]

\* Mutant of serializer_is_valid: long_url is not validated as a URL
serializer_is_valid_NoUrlCheck(long_url, short_url) ==
    LET v == serializer_validated(long_url, short_url)
    IN  /\ v.long_url # << >>
        /\ Len(v.long_url) <= MAX_LONG_URL_LENGTH
        /\ v.short_url # << >>
        /\ Len(v.short_url) <= MAX_SHORT_URL_LENGTH

serializer_is_valid(long_url, short_url) ==
    LET v == serializer_validated(long_url, short_url)
    IN  /\ v.long_url # << >>
        /\ Len(v.long_url) <= MAX_LONG_URL_LENGTH
        /\ URLValidator(v.long_url)
        /\ v.short_url # << >>
        /\ Len(v.short_url) <= MAX_SHORT_URL_LENGTH

(***************************************************************************)
(* Inputs of the requests                                                  *)
(***************************************************************************)
W3 ==
    <<"w","3",".","o","r","g">>

HTTP_W3 ==
    <<"h","t","t","p",":","/","/","w","3",".","o","r","g">>

NETLOC_W3 ==
    <<"/","/","w","3",".","o","r","g">>

WTF ==
    <<"w","t","f">>

\* long_url values a client posts: a bare host, the same URL in absolute
\* form, a URL with a host and no scheme, and a host without a domain
LongInputs ==
    {W3, HTTP_W3, NETLOC_W3, WTF}

SHORT ==
    <<"s","h","o","r","t">>

\* views.DEFAULT_SHORT_URL_LENGTH
DEFAULT_SHORT_URL_LENGTH == 6

\* CHAR_SET as the sequence random.sample indexes:
\* string.ascii_letters + string.digits
CHAR_SEQ ==
    <<"a","b","c","d","e","f","g","h","i","j","k","l","m",
      "n","o","p","q","r","s","t","u","v","w","x","y","z",
      "A","B","C","D","E","F","G","H","I","J","K","L","M",
      "N","O","P","Q","R","S","T","U","V","W","X","Y","Z",
      "0","1","2","3","4","5","6","7","8","9">>

\* The results of the calls of randbelow in two calls of random.sample:
\* draw[i] is the index drawn among the Len(CHAR_SEQ) - i + 1 characters that
\* are still in the pool
DRAW1 ==
    <<0, 27, 2, 53, 4, 31>>

DRAW2 ==
    <<51, 24, 51, 23, 48, 52>>

RandomDraws ==
    {DRAW1, DRAW2}

\* random.sample, selections i..k: result[i] = pool[j], and the last
\* character still in the pool moves to position j
RECURSIVE sample_from(_, _, _, _)
sample_from(pool, draw, i, k) ==
    IF i > k THEN << >>
    ELSE <<pool[draw[i] + 1]>>
         \o sample_from([pool EXCEPT ![draw[i] + 1] = pool[Len(pool) - i + 1]],
                        draw, i + 1, k)

\* Mutant of sample: one character short
sample_OneShort(draw, length) ==
    sample_from(CHAR_SEQ, draw, 1, length - 1)

\* Mutant of sample: the character selected stays in the pool
sample_WithReplacement(draw, length) ==
    [i \in 1..length |-> CHAR_SEQ[draw[i] + 1]]

\* random.sample(CHAR_SET, length) for the indices draw
sample(draw, length) ==
    sample_from(CHAR_SEQ, draw, 1, length)

\* The two codes generate_random_short_url can return in this model
G1 ==
    sample(DRAW1, DEFAULT_SHORT_URL_LENGTH)

G2 ==
    sample(DRAW2, DEFAULT_SHORT_URL_LENGTH)

\* short_url values a client posts: absent/empty, valid, invalid, and one equal
\* to a code the generator may draw
ShortInputs ==
    {<< >>, SHORT, <<"#">>, G1}

\* Paths the URL router passes to handle_redirect and short_url values of
\* retrieve requests
LookupInputs ==
    {SHORT, G1, <<"#">>}

\* Bounds of the model
MaxRecords == 2

MaxVisits == 2

Procs ==
    {"t1", "t2"}

(***************************************************************************)
(* State                                                                   *)
(***************************************************************************)
VARIABLES
    store,      \* table urlrecords: store[pk] is the row with primary key pk
    now,        \* the clock read by auto_now
    pc,         \* pc[p]: where request thread p is in its handler
    req,        \* req[p]: the local variables of the handler p runs
    resp,       \* resp[p]: the response p returned (pc[p] = "done")
    served,     \* served[pk]: the 302 responses issued for row pk
    arg,        \* the argument of the function applied on its own (NormSpec)
    out         \* the results of its successive applications

vars == <<store, now, pc, req, resp, served, arg, out>>

pure == <<arg, out>>

\* UrlRecord.objects.filter(short_url=short_url)
filter(short_url) ==
    {pk \in 1..Len(store) : store[pk].short_url = short_url}

\* QuerySet.exists()
exists(short_url) ==
    filter(short_url) # {}

\* The locals of a handler: posted_long is request.data's long_url, posted
\* request.data's short_url, absent whether
\* no row had that short_url when the request arrived, candidate the last
\* code drawn by generate_random_short_url, attempts its loop passes, pk the
\* row handle_redirect read
NoRequest ==
    [op |-> "none", long_url |-> << >>, short_url |-> << >>,
     posted_long |-> << >>, posted |-> << >>,
     absent |-> FALSE, candidate |-> << >>, attempts |-> 0, pk |-> 0, visit_count |-> 0]

NoResponse ==
    [op |-> "none", status |-> 0, reason |-> "", title |-> "", long_url |-> << >>,
     short_url |-> << >>, visit_count |-> 0, list |-> << >>]

\* ErrorReason and UrlAPIErrorResponse.ATTRIBUTES_FOR_REASON[reason]['status_code']
status_code(reason) ==
    CASE reason = "INTERNAL_SERVER_ERROR"        -> 500
      [] reason = "INVALID_LONG_URL"             -> 400
      [] reason = "INVALID_SHORT_URL"            -> 400
      [] reason = "SHORT_URL_ALREADY_EXISTS"     -> 409
      [] reason = "SHORT_URL_MAPPING_NOT_EXISTS" -> 404
      [] reason = "MALFORMED_DATA"               -> 400

\* UrlAPIErrorResponse.ATTRIBUTES_FOR_REASON[reason]['title']
title(reason) ==
    CASE reason = "INTERNAL_SERVER_ERROR"        -> "Internal server error"
      [] reason = "INVALID_LONG_URL"             -> "Invalid long_url"
      [] reason = "INVALID_SHORT_URL"            -> "Invalid short_url"
      [] reason = "SHORT_URL_ALREADY_EXISTS"     -> "short_url already exists"
      [] reason = "SHORT_URL_MAPPING_NOT_EXISTS" -> "short_url has no mapping"
      [] reason = "MALFORMED_DATA"               -> "Malformed data"

UrlAPIErrorResponse(op, reason, long_url, short_url) ==
    [NoResponse EXCEPT !.op = op, !.status = status_code(reason), !.reason = reason,
                       !.title = title(reason),
                       !.long_url = long_url, !.short_url = short_url]

\* Response(serializer.data, status): the serialized record
RecordResponse(op, status, long_url, short_url, visit_count) ==
    [NoResponse EXCEPT !.op = op, !.status = status, !.long_url = long_url,
                       !.short_url = short_url, !.visit_count = visit_count]

Init ==
    /\ store = << >>
    /\ now = 0
    /\ pc = [p \in Procs |-> "idle"]
    /\ req = [p \in Procs |-> NoRequest]
    /\ resp = [p \in Procs |-> NoResponse]
    /\ served = << >>
    /\ arg = << >>
    /\ out = << >>

\* p returns response r
Respond(p, r) ==
    /\ pc' = [pc EXCEPT ![p] = "done"]
    /\ resp' = [resp EXCEPT ![p] = r]

(***************************************************************************)
(* POST api/v1/urls : UrlRecordListCreateView.create                       *)
(***************************************************************************)
\* generate_random_short_url.RETRY_LIMIT
RETRY_LIMIT == 5

\* create in flight: received and not yet answered
CreatesInFlight ==
    {q \in Procs : req[q].op = "create" /\ pc[q] # "done"}

\* create, from the check of short_url to serializer.is_valid(): the handler
\* answers an error or goes on to the existence check with validated_data
create_validate(p, r, short_url) ==
    IF ~is_valid_short_url(short_url)
    THEN /\ Respond(p, UrlAPIErrorResponse("create", "INVALID_SHORT_URL", << >>, short_url))
         /\ req' = [req EXCEPT ![p] = r]
    ELSE IF serializer_is_valid(r.long_url, short_url)
    THEN /\ pc' = [pc EXCEPT ![p] = "exists"]
         /\ req' = [req EXCEPT ![p] =
                        [r EXCEPT !.long_url = serializer_validated(r.long_url, short_url).long_url,
                                  !.short_url = serializer_validated(r.long_url, short_url).short_url,
                                  !.visit_count = serializer_validated(r.long_url, short_url).visit_count]]
         /\ UNCHANGED resp
    ELSE /\ Respond(p, UrlAPIErrorResponse("create", "MALFORMED_DATA", << >>, << >>))
         /\ req' = [req EXCEPT ![p] = r]

\* create, up to the first database access
CreateStart(p, long_in, short_in) ==
    LET long_url == convert_to_absolute_url(long_in)
        r == [NoRequest EXCEPT !.op = "create", !.long_url = long_url,
                               !.short_url = short_in,
                               !.posted_long = long_in, !.posted = short_in,
                               !.absent = ~exists(short_in)]
    IN  /\ pc[p] = "idle"
        /\ Len(store) + Cardinality(CreatesInFlight) < MaxRecords
        /\ IF ~is_valid_long_url(long_url)
           THEN /\ Respond(p, UrlAPIErrorResponse("create", "INVALID_LONG_URL", long_url, << >>))
                /\ req' = [req EXCEPT ![p] = r]
           ELSE IF short_in = << >>
           THEN /\ pc' = [pc EXCEPT ![p] = "generate"]
                /\ req' = [req EXCEPT ![p] = r]
                /\ UNCHANGED resp
           ELSE create_validate(p, r, short_in)
        /\ UNCHANGED <<store, now, served, pure>>

\* Mutant of generate_random_short_url: the loop makes one pass too many
generate_random_short_url_ExtraPass(p, draw) ==
    LET candidate == sample(draw, DEFAULT_SHORT_URL_LENGTH)
        r == [req[p] EXCEPT !.attempts = @ + 1, !.candidate = candidate]
    IN  /\ pc[p] = "generate"
        /\ IF ~exists(candidate)
           THEN create_validate(p, r, candidate)
           ELSE IF r.attempts <= RETRY_LIMIT
           THEN /\ req' = [req EXCEPT ![p] = r]
                /\ UNCHANGED <<pc, resp>>
           ELSE /\ Respond(p, UrlAPIErrorResponse("create", "INVALID_SHORT_URL",
                                                  << >>, r.short_url))
                /\ req' = [req EXCEPT ![p] = r]
        /\ UNCHANGED <<store, now, served, pure>>

\* Mutant of generate_random_short_url: after the last pass the last
\* candidate is returned instead of raising RuntimeError
generate_random_short_url_KeepLast(p, draw) ==
    LET candidate == sample(draw, DEFAULT_SHORT_URL_LENGTH)
        r == [req[p] EXCEPT !.attempts = @ + 1, !.candidate = candidate]
    IN  /\ pc[p] = "generate"
        /\ IF ~exists(candidate)
           THEN create_validate(p, r, candidate)
           ELSE IF r.attempts < RETRY_LIMIT
           THEN /\ req' = [req EXCEPT ![p] = r]
                /\ UNCHANGED <<pc, resp>>
           ELSE create_validate(p, r, candidate)
        /\ UNCHANGED <<store, now, served, pure>>

\* generate_random_short_url: one pass of the loop, the candidate drawn by
\* random.sample; RuntimeError after the last pass is caught by create
generate_random_short_url(p, draw) ==
    LET candidate == sample(draw, DEFAULT_SHORT_URL_LENGTH)
        r == [req[p] EXCEPT !.attempts = @ + 1, !.candidate = candidate]
    IN  /\ pc[p] = "generate"
        /\ IF ~exists(candidate)
           THEN create_validate(p, r, candidate)
           ELSE IF r.attempts < RETRY_LIMIT
           THEN /\ req' = [req EXCEPT ![p] = r]
                /\ UNCHANGED <<pc, resp>>
           ELSE /\ Respond(p, UrlAPIErrorResponse("create", "INVALID_SHORT_URL",
                                                  << >>, r.short_url))
                /\ req' = [req EXCEPT ![p] = r]
        /\ UNCHANGED <<store, now, served, pure>>

\* Mutant of CreateExists: the row is saved before the existence check
CreateExists_SaveFirst(p) ==
    /\ pc[p] = "exists"
    /\ IF exists(req[p].short_url)
       THEN /\ Respond(p, UrlAPIErrorResponse("create", "SHORT_URL_ALREADY_EXISTS",
                                              << >>, req[p].short_url))
            /\ store' = Append(store, [long_url |-> req[p].long_url,
                                       short_url |-> req[p].short_url,
                                       last_activity_time |-> now,
                                       visit_count |-> req[p].visit_count])
            /\ served' = Append(served, 0)
            /\ now' = now + 1
       ELSE /\ pc' = [pc EXCEPT ![p] = "save"]
            /\ UNCHANGED <<resp, store, now, served>>
    /\ UNCHANGED <<req, pure>>

\* Mutant of CreateExists: the existence check is skipped
CreateExists_NoCheck(p) ==
    /\ pc[p] = "exists"
    /\ pc' = [pc EXCEPT ![p] = "save"]
    /\ UNCHANGED <<resp, store, now, req, served, pure>>

\* create: if UrlRecord.objects.filter(short_url=short_url).exists()
CreateExists(p) ==
    /\ pc[p] = "exists"
    /\ IF exists(req[p].short_url)
       THEN Respond(p, UrlAPIErrorResponse("create", "SHORT_URL_ALREADY_EXISTS",
                                           << >>, req[p].short_url))
       ELSE /\ pc' = [pc EXCEPT ![p] = "save"]
            /\ UNCHANGED resp
    /\ UNCHANGED <<store, now, req, served, pure>>

\* The row Model.save() writes: auto_now sets last_activity_time
Row(long_url, short_url, visit_count) ==
    [long_url |-> long_url, short_url |-> short_url,
     last_activity_time |-> now, visit_count |-> visit_count]

\* create: serializer.save() inserts a row; 201 with serializer.data
CreateSave(p) ==
    /\ pc[p] = "save"
    /\ store' = Append(store, Row(req[p].long_url, req[p].short_url, req[p].visit_count))
    /\ served' = Append(served, 0)
    /\ now' = now + 1
    /\ Respond(p, RecordResponse("create", 201, req[p].long_url, req[p].short_url,
                                  req[p].visit_count))
    /\ UNCHANGED <<req, pure>>

(***************************************************************************)
(* GET <short_url> : urls.py routes a path matching VALID_SHORT_URL_REGEX  *)
(* to handle_redirect, with the text of the group short_url                *)
(***************************************************************************)
\* The text the group (?P<short_url>^[A-Za-z0-9]{1,32}$) captures
short_url_group(path) ==
    IF path # << >> /\ path[Len(path)] = "\n"
    THEN Before(path, Len(path)) ELSE path

\* redirects in flight: a row is read and not yet saved
RedirectsInFlight ==
    {q \in Procs : pc[q] = "redirect_save"}

\* The 302 responses issued so far
RECURSIVE Sum(_)
Sum(counts) ==
    IF counts = << >> THEN 0 ELSE Head(counts) + Sum(Tail(counts))

\* Mutant of RedirectGet: of several rows with the short_url the first is used
RedirectGet_FirstOfMany(p, path) ==
    LET short_url == short_url_group(path)
        found     == filter(short_url)
        r         == [NoRequest EXCEPT !.op = "redirect", !.short_url = short_url]
    IN  /\ pc[p] = "idle"
        /\ MatchesShortUrlRegex(path)
        /\ found # {} => Sum(served) + Cardinality(RedirectsInFlight) < MaxVisits
        /\ IF found # {}
           THEN LET pk == CHOOSE k \in found : \A o \in found : k <= o
                IN  /\ pc' = [pc EXCEPT ![p] = "redirect_save"]
                    /\ req' = [req EXCEPT ![p] =
                                  [r EXCEPT !.pk = pk,
                                            !.long_url = store[pk].long_url,
                                            !.visit_count = store[pk].visit_count]]
                    /\ UNCHANGED resp
           ELSE /\ Respond(p, [NoResponse EXCEPT !.op = "redirect", !.status = 404,
                                                 !.short_url = short_url])
                /\ req' = [req EXCEPT ![p] = r]
        /\ UNCHANGED <<store, now, served, pure>>

\* handle_redirect: record := UrlRecord.objects.get(short_url=short_url),
\* while fewer than budget redirects have found their row
RedirectGetWithin(p, path, budget) ==
    LET short_url == short_url_group(path)
        found     == filter(short_url)
        r         == [NoRequest EXCEPT !.op = "redirect", !.short_url = short_url]
    IN  /\ pc[p] = "idle"
        /\ MatchesShortUrlRegex(path)
        /\ Cardinality(found) = 1 => Sum(served) + Cardinality(RedirectsInFlight) < budget
        /\ IF Cardinality(found) = 1
           THEN LET pk == CHOOSE k \in found : TRUE
                IN  /\ pc' = [pc EXCEPT ![p] = "redirect_save"]
                    /\ req' = [req EXCEPT ![p] =
                                  [r EXCEPT !.pk = pk,
                                            !.long_url = store[pk].long_url,
                                            !.visit_count = store[pk].visit_count]]
                    /\ UNCHANGED resp
           ELSE \* DoesNotExist, MultipleObjectsReturned: redirect_failed.html
                /\ Respond(p, [NoResponse EXCEPT !.op = "redirect", !.status = 404,
                                                 !.short_url = short_url])
                /\ req' = [req EXCEPT ![p] = r]
        /\ UNCHANGED <<store, now, served, pure>>

RedirectGet(p, path) ==
    RedirectGetWithin(p, path, MaxVisits)

\* Mutant of RedirectSave: save() writes the requested path's target over
\* the row's short_url
RedirectSave_RewriteCode(p) ==
    LET record == [req[p] EXCEPT !.visit_count = @ + 1]
    IN  /\ pc[p] = "redirect_save"
        /\ store' = [store EXCEPT ![record.pk] =
                         Row(record.long_url, record.long_url, record.visit_count)]
        /\ served' = [served EXCEPT ![record.pk] = @ + 1]
        /\ now' = now + 1
        /\ req' = [req EXCEPT ![p] = record]
        /\ Respond(p, RecordResponse("redirect", 302, record.long_url, record.short_url,
                                      record.visit_count))
        /\ UNCHANGED pure

\* handle_redirect: record.visit_count += 1; record.save(); HttpResponseRedirect
RedirectSave(p) ==
    LET record == [req[p] EXCEPT !.visit_count = @ + 1]
    IN  /\ pc[p] = "redirect_save"
        /\ store' = [store EXCEPT ![record.pk] =
                         Row(record.long_url, record.short_url, record.visit_count)]
        /\ served' = [served EXCEPT ![record.pk] = @ + 1]
        /\ now' = now + 1
        /\ req' = [req EXCEPT ![p] = record]
        /\ Respond(p, RecordResponse("redirect", 302, record.long_url, record.short_url,
                                      record.visit_count))
        /\ UNCHANGED pure

(***************************************************************************)
(* GET api/v1/urls/ : UrlRecordRetrieveView.get                            *)
(***************************************************************************)
\* Mutant of Retrieve: a short_url without a row is answered as an invalid one
Retrieve_MissIsInvalid(p, short_url) ==
    LET found == filter(short_url)
    IN  /\ pc[p] = "idle"
        /\ req' = [req EXCEPT ![p] = [NoRequest EXCEPT !.op = "retrieve",
                                                       !.short_url = short_url]]
        /\ IF is_valid_short_url(short_url) /\ Cardinality(found) = 1
           THEN LET record == store[CHOOSE k \in found : TRUE]
                IN  Respond(p, RecordResponse("retrieve", 200, record.long_url,
                                              record.short_url, record.visit_count))
           ELSE Respond(p, UrlAPIErrorResponse("retrieve", "INVALID_SHORT_URL",
                                               << >>, short_url))
        /\ UNCHANGED <<store, now, served, pure>>

Retrieve(p, short_url) ==
    LET found == filter(short_url)
    IN  /\ pc[p] = "idle"
        /\ req' = [req EXCEPT ![p] = [NoRequest EXCEPT !.op = "retrieve",
                                                       !.short_url = short_url]]
        /\ IF is_valid_short_url(short_url)
           THEN IF Cardinality(found) = 1
                THEN LET record == store[CHOOSE k \in found : TRUE]
                     IN  Respond(p, RecordResponse("retrieve", 200, record.long_url,
                                                   record.short_url, record.visit_count))
                ELSE Respond(p, UrlAPIErrorResponse("retrieve", "SHORT_URL_MAPPING_NOT_EXISTS",
                                                    << >>, short_url))
           ELSE Respond(p, UrlAPIErrorResponse("retrieve", "INVALID_SHORT_URL",
                                               << >>, short_url))
        /\ UNCHANGED <<store, now, served, pure>>

(***************************************************************************)
(* GET api/v1/urls : UrlRecordListCreateView.get                           *)
(***************************************************************************)
MAX_LIST_SIZE == 50

\* order_by('-last_activity_time') of the rows pks
RECURSIVE order_by_last_activity(_)
order_by_last_activity(pks) ==
    IF pks = {} THEN << >>
    ELSE LET first == CHOOSE k \in pks :
                         \A o \in pks :
                            \/ store[o].last_activity_time < store[k].last_activity_time
                            \/ (store[o].last_activity_time = store[k].last_activity_time
                                  /\ k <= o)
         IN  <<first>> \o order_by_last_activity(pks \ {first})

\* Mutant of queryset: the slice [:MAX_LIST_SIZE] is left out
queryset_NoLimit ==
    order_by_last_activity(1..Len(store))

\* UrlRecord.objects.all().order_by('-last_activity_time')[:MAX_LIST_SIZE]
queryset ==
    LET all == order_by_last_activity(1..Len(store))
    IN  IF Len(all) <= MAX_LIST_SIZE THEN all ELSE SubSeq(all, 1, MAX_LIST_SIZE)

\* UrlRecordSerializer(record).data
serialize(pk) ==
    [long_url |-> store[pk].long_url, short_url |-> store[pk].short_url,
     visit_count |-> store[pk].visit_count]

List(p) ==
    /\ pc[p] = "idle"
    /\ req' = [req EXCEPT ![p] = [NoRequest EXCEPT !.op = "list"]]
    /\ LET records == queryset
       IN  Respond(p, [NoResponse EXCEPT !.op = "list", !.status = 200,
                                         !.list = [i \in 1..Len(records) |->
                                                      serialize(records[i])]])
    /\ UNCHANGED <<store, now, served, pure>>

\* The response has gone to the client: thread p is free for the next request
Finish(p) ==
    /\ pc[p] = "done"
    /\ pc' = [pc EXCEPT ![p] = "idle"]
    /\ req' = [req EXCEPT ![p] = NoRequest]
    /\ resp' = [resp EXCEPT ![p] = NoResponse]
    /\ UNCHANGED <<store, now, served, pure>>

Next ==
    \E p \in Procs :
        \/ \E long_in \in LongInputs, short_in \in ShortInputs : CreateStart(p, long_in, short_in)
        \/ \E draw \in RandomDraws : generate_random_short_url(p, draw)
        \/ CreateExists(p)
        \/ CreateSave(p)
        \/ \E path \in LookupInputs : RedirectGet(p, path)
        \/ RedirectSave(p)
        \/ \E short_url \in LookupInputs : Retrieve(p, short_url)
        \/ List(p)
        \/ Finish(p)

Spec == Init /\ [][Next]_vars

(***************************************************************************)
(* convert_to_absolute_url applied on its own, and applied again to its    *)
(* own result, for every string of at most MaxUrlLen characters of         *)
(* UrlAlphabet                                                             *)
(***************************************************************************)
MaxUrlLen == 4

\* A letter (a scheme or a host), the delimiters urlsplit looks for, and the
\* bracket that makes urlsplit raise ValueError
UrlAlphabet ==
    {"a", ":", "/", "?", "#", "["}

UrlStrings ==
    UNION {[1..n -> UrlAlphabet] : n \in 0..MaxUrlLen}

NormInit ==
    /\ store = << >>
    /\ now = 0
    /\ pc = [p \in Procs |-> "idle"]
    /\ req = [p \in Procs |-> NoRequest]
    /\ resp = [p \in Procs |-> NoResponse]
    /\ served = << >>
    /\ arg \in UrlStrings
    /\ out = << >>

\* long_url = convert_to_absolute_url(long_url), on the argument and then on
\* the result
Normalize ==
    /\ Len(out) < 2
    /\ out' = Append(out, convert_to_absolute_url(IF out = << >> THEN arg ELSE out[Len(out)]))
    /\ UNCHANGED <<store, now, pc, req, resp, served, arg>>

NormNext ==
    Normalize

NormSpec == NormInit /\ [][NormNext]_vars

(***************************************************************************)
(* is_valid_short_url applied on its own to codes of every length up to    *)
(* MaxCodeLen, to every string of at most ShortCodeLen characters of       *)
(* CodeAlphabet, and to codes with one character replaced by a character   *)
(* outside [A-Za-z0-9]                                                     *)
(***************************************************************************)
MaxCodeLen == 33

ShortCodeLen == 3

\* The string of n characters c
Repeat(c, n) ==
    [i \in 1..n |-> c]

\* Codes of valid characters of every length from 0 to MaxCodeLen
AlnumRuns ==
    {Repeat(c, n) : c \in {"a", "Z", "0"}, n \in 0..MaxCodeLen}

\* The letters of the reserved word in both cases, a path delimiter and
\* control characters
CodeAlphabet ==
    {"a", "p", "i", "A", "/", "\n"}

\* Characters outside [A-Za-z0-9] a client can put in a short_url
ForeignChars ==
    {"/", "\n", " ", "-", "#"}

\* s with the character at position k replaced by c
Spoil(s, k, c) ==
    [s EXCEPT ![k] = c]

\* Codes with a foreign character at the first, a middle or the last position
SpoiledRuns ==
    UNION {{Spoil(s, k, c) : k \in {1, 2, Len(s)}, c \in ForeignChars} :
              s \in {r \in AlnumRuns : Len(r) >= 3}}

CodeStrings ==
    AlnumRuns \cup SpoiledRuns \cup UNION {[1..n -> CodeAlphabet] : n \in 0..ShortCodeLen}

ShortUrlInit ==
    /\ store = << >>
    /\ now = 0
    /\ pc = [p \in Procs |-> "idle"]
    /\ req = [p \in Procs |-> NoRequest]
    /\ resp = [p \in Procs |-> NoResponse]
    /\ served = << >>
    /\ arg \in CodeStrings
    /\ out = << >>

\* is_valid_short_url(short_url) on the argument
Validate ==
    /\ out = << >>
    /\ out' = <<is_valid_short_url(arg)>>
    /\ UNCHANGED <<store, now, pc, req, resp, served, arg>>

ShortUrlNext ==
    Validate

ShortUrlSpec == ShortUrlInit /\ [][ShortUrlNext]_vars

(***************************************************************************)
(* The requests handled one at a time on a table that earlier create       *)
(* requests have filled with up to MaxRows rows, more than MAX_LIST_SIZE   *)
(***************************************************************************)
MaxRows == 52

DigitSeq ==
    <<"0","1","2","3","4","5","6","7","8","9">>

\* The short_url of the k-th row: the codes the requests of the model look
\* up, then distinct codes of three valid characters
RowCode(k) ==
    IF k = 1 THEN SHORT
    ELSE IF k = 2 THEN G1
    ELSE <<"r", DigitSeq[(k \div 10) + 1], DigitSeq[(k % 10) + 1]>>

\* The table after n create requests answered 201, one after the other
Created(n) ==
    [k \in 1..n |-> [long_url |-> HTTP_W3, short_url |-> RowCode(k),
                     last_activity_time |-> k - 1, visit_count |-> 0]]

ListInit ==
    /\ \E n \in 0..MaxRows :
          /\ store = Created(n)
          /\ now = n
          /\ served = [k \in 1..n |-> 0]
    /\ pc = [p \in Procs |-> "idle"]
    /\ req = [p \in Procs |-> NoRequest]
    /\ resp = [p \in Procs |-> NoResponse]
    /\ arg = << >>
    /\ out = << >>

\* One request thread: the requests are handled in sequence
ListNext ==
    \E p \in {"t1"} :
        \/ \E long_in \in LongInputs, short_in \in ShortInputs : CreateStart(p, long_in, short_in)
        \/ \E draw \in RandomDraws : generate_random_short_url(p, draw)
        \/ CreateExists(p)
        \/ CreateSave(p)
        \/ \E path \in LookupInputs : RedirectGet(p, path)
        \/ RedirectSave(p)
        \/ \E short_url \in LookupInputs : Retrieve(p, short_url)
        \/ List(p)
        \/ Finish(p)

ListSpec == ListInit /\ [][ListNext]_vars

(***************************************************************************)
(* The requests handled one at a time from the empty table, create also    *)
(* with the reserved word and with a code that ends with a newline         *)
(***************************************************************************)
SHORT_NL ==
    SHORT \o <<"\n">>

SeqShortInputs ==
    ShortInputs \cup {API, SHORT_NL}

SeqNext ==
    \E p \in {"t1"} :
        \/ \E long_in \in LongInputs, short_in \in SeqShortInputs : CreateStart(p, long_in, short_in)
        \/ \E draw \in RandomDraws : generate_random_short_url(p, draw)
        \/ CreateExists(p)
        \/ CreateSave(p)
        \/ \E path \in LookupInputs : RedirectGet(p, path)
        \/ RedirectSave(p)
        \/ \E short_url \in LookupInputs : Retrieve(p, short_url)
        \/ List(p)
        \/ Finish(p)

SeqSpec == Init /\ [][SeqNext]_vars

(***************************************************************************)
(* Concurrent requests for one short_url, with up to MaxRowVisits          *)
(* redirects that find the row                                             *)
(***************************************************************************)
MaxRowVisits == 3

VisitNext ==
    \E p \in Procs :
        \/ CreateStart(p, W3, SHORT)
        \/ CreateExists(p)
        \/ CreateSave(p)
        \/ RedirectGetWithin(p, SHORT, MaxRowVisits)
        \/ RedirectSave(p)
        \/ Retrieve(p, SHORT)
        \/ List(p)
        \/ Finish(p)

VisitSpec == Init /\ [][VisitNext]_vars

(***************************************************************************)
(* random.sample(CHAR_SET, DEFAULT_SHORT_URL_LENGTH) applied on its own,   *)
(* every selection drawing one of the first MaxLowIndex + 1 positions of   *)
(* the pool or its last position                                          *)
(***************************************************************************)
MaxLowIndex == 1

\* randbelow(n - i) for the i-th selection (i from 1): an index of a character
\* still in the pool
IndexChoices(i) ==
    (0..MaxLowIndex) \cup {Len(CHAR_SEQ) - i}

SampleDraws ==
    {draw \in [1..DEFAULT_SHORT_URL_LENGTH ->
                  UNION {IndexChoices(i) : i \in 1..DEFAULT_SHORT_URL_LENGTH}] :
        \A i \in 1..DEFAULT_SHORT_URL_LENGTH : draw[i] \in IndexChoices(i)}

SampleInit ==
    /\ store = << >>
    /\ now = 0
    /\ pc = [p \in Procs |-> "idle"]
    /\ req = [p \in Procs |-> NoRequest]
    /\ resp = [p \in Procs |-> NoResponse]
    /\ served = << >>
    /\ arg \in SampleDraws
    /\ out = << >>

\* short_url = ''.join(random.sample(CHAR_SET, length))
Sample ==
    /\ out = << >>
    /\ out' = <<sample(arg, DEFAULT_SHORT_URL_LENGTH)>>
    /\ UNCHANGED <<store, now, pc, req, resp, served, arg>>

SampleNext ==
    Sample

SampleSpec == SampleInit /\ [][SampleNext]_vars

(***************************************************************************)
(* Properties                                                              *)
(***************************************************************************)
\* p has answered a create request
CreateDone(p) ==
    /\ pc[p] = "done"
    /\ req[p].op = "create"

\* p's create request carried an explicit, syntactically valid short_url and
\* a long_url that is valid once normalised
ExplicitValid(p) ==
    /\ req[p].op = "create"
    /\ req[p].posted # << >>
    /\ is_valid_short_url(req[p].posted)
    /\ is_valid_long_url(req[p].long_url)
    /\ serializer_is_valid(req[p].long_url, req[p].posted)

\* C1: two concurrent create requests with the same explicit valid short_url,
\* which no row had when they arrived: exactly one is answered 201 and the
\* other 409 SHORT_URL_ALREADY_EXISTS.
C1_ExactlyOneCreateSucceeds ==
    \A p, q \in Procs :
        ( /\ p # q
          /\ CreateDone(p) /\ CreateDone(q)
          /\ ExplicitValid(p) /\ ExplicitValid(q)
          /\ req[p].posted = req[q].posted
          /\ req[p].absent /\ req[q].absent )
        => \/ (resp[p].status = 201 /\ resp[q].status = 409
                 /\ resp[q].reason = "SHORT_URL_ALREADY_EXISTS")
           \/ (resp[q].status = 201 /\ resp[p].status = 409
                 /\ resp[p].reason = "SHORT_URL_ALREADY_EXISTS")

\* C2: in every reachable state no two rows have the same short_url.
C2_ShortUrlUnique ==
    \A i, j \in 1..Len(store) :
        i # j => store[i].short_url # store[j].short_url

\* C3: when the n redirects of a row have all completed with a 302 (none is
\* between its read and its save), the row's visit_count is its initial
\* value, 0, plus n.
C3_NoLostVisit ==
    \A pk \in 1..Len(store) :
        (\A p \in Procs : ~(pc[p] = "redirect_save" /\ req[p].pk = pk))
        => store[pk].visit_count = 0 + served[pk]

\* p takes the step: only the thread that moves changes its pc or its locals
StepBy(p) ==
    pc'[p] # pc[p] \/ req'[p] # req[p]

\* C4: every redirect of a short_url that create accepted (one row has it)
\* answers 302 with the long_url create stored as its target, and raises the
\* visit_count of that row by exactly 1.
C4_RoundTrip ==
    [][\A p \in Procs :
          /\ ( /\ pc[p] = "idle" /\ pc'[p] = "done"
               /\ resp'[p].op = "redirect"
               /\ Cardinality(filter(resp'[p].short_url)) = 1 )
             => resp'[p].status = 302
          /\ ( pc[p] = "redirect_save" /\ pc'[p] = "done" )
             => /\ resp'[p].status = 302
                /\ resp'[p].long_url = store[req[p].pk].long_url
                /\ store'[req[p].pk].long_url = store[req[p].pk].long_url
                /\ store'[req[p].pk].visit_count = store[req[p].pk].visit_count + 1
      ]_vars

\* C5: the only step of a create request that writes to the store is the one
\* that answers 201, and it inserts one row and leaves every other row as it
\* was; every other step of a create request, and so every create request
\* that is answered an error, leaves the store unchanged.
C5_CreateWrites ==
    [][\A p \in Procs :
          (StepBy(p) /\ req'[p].op = "create")
          => IF pc'[p] = "done" /\ resp'[p].status = 201
             THEN /\ Len(store') = Len(store) + 1
                  /\ SubSeq(store', 1, Len(store)) = store
                  /\ store'[Len(store')].short_url = resp'[p].short_url
                  /\ store'[Len(store')].long_url = resp'[p].long_url
             ELSE /\ store' = store
                  /\ pc'[p] = "done" =>
                        resp'[p].reason \in {"INVALID_LONG_URL", "INVALID_SHORT_URL",
                                             "SHORT_URL_ALREADY_EXISTS", "MALFORMED_DATA"}
      ]_vars

\* A create answered 201 beside a create answered 409
C5_Witness ==
    \E p, q \in Procs :
        /\ CreateDone(p) /\ resp[p].status = 201
        /\ CreateDone(q) /\ resp[q].status = 409
        /\ Len(store) >= 1

\* C6: generate_random_short_url makes at most 5 passes of draw and existence
\* check: every pass counts, a pass that finds its candidate in the store
\* loops only while fewer than 5 passes are made, and the 5th such pass fails.
C6_BoundedRetries ==
    [][\A p \in Procs :
          (StepBy(p) /\ pc[p] = "generate")
          => /\ req'[p].attempts = req[p].attempts + 1
             /\ req'[p].attempts <= 5
             /\ pc'[p] = "generate" => req'[p].attempts < 5
             /\ (exists(req'[p].candidate) /\ req'[p].attempts >= 5) => pc'[p] = "done"
      ]_vars

\* A create whose 5 passes all drew a code that is in the store
C6_Witness ==
    \E p \in Procs :
        /\ CreateDone(p)
        /\ req[p].posted = << >>
        /\ req[p].attempts = 5
        /\ exists(req[p].candidate)
        /\ resp[p].status = 400

\* C7: when the last pass of the generator of a create request with an empty
\* short_url and a valid long_url finds its candidate in the store too, the
\* request is answered 400 INVALID_SHORT_URL with an empty short_url, the
\* store is unchanged, and no request goes on to the existence check or the
\* insert with an empty short_url.
C7_ExhaustionReported ==
    [][\A p \in Procs :
          /\ ( /\ StepBy(p) /\ pc[p] = "generate"
               /\ is_valid_long_url(req[p].long_url)
               /\ req[p].posted = << >>
               /\ req[p].attempts = 4
               /\ exists(req'[p].candidate) )
             => /\ pc'[p] = "done"
                /\ resp'[p].status = 400
                /\ resp'[p].reason = "INVALID_SHORT_URL"
                /\ resp'[p].short_url = << >>
                /\ store' = store
          /\ pc'[p] \in {"exists", "save"} => req'[p].short_url # << >>
      ]_vars

\* A create answered 400 INVALID_SHORT_URL after 5 passes, nothing written
C7_Witness ==
    \E p \in Procs :
        /\ CreateDone(p)
        /\ req[p].posted = << >>
        /\ req[p].attempts = 5
        /\ resp[p].reason = "INVALID_SHORT_URL"
        /\ resp[p].short_url = << >>
        /\ \A pk \in 1..Len(store) : store[pk].short_url # << >>

\* C8: a create request with an empty short_url and a valid long_url that is
\* answered 201 inserts a row whose short_url has exactly 6 characters of
\* [A-Za-z0-9], passes is_valid_short_url, is the candidate of the first pass
\* of the generator that found its candidate absent (every earlier pass found
\* its candidate in the store), and whose visit_count is 0.
C8_GeneratedCreate ==
    [][\A p \in Procs :
          /\ (StepBy(p) /\ pc[p] = "generate" /\ pc'[p] = "generate")
             => exists(req'[p].candidate)
          /\ (StepBy(p) /\ pc[p] = "generate" /\ pc'[p] = "exists")
             => /\ ~exists(req'[p].candidate)
                /\ req'[p].short_url = req'[p].candidate
          /\ ( /\ StepBy(p) /\ req[p].op = "create" /\ req[p].posted = << >>
               /\ pc'[p] = "done" /\ resp'[p].status = 201 )
             => LET row == store'[Len(store')]
                IN  /\ Len(store') = Len(store) + 1
                    /\ Len(row.short_url) = 6
                    /\ AllIn(row.short_url, CHAR_SET)
                    /\ is_valid_short_url(row.short_url)
                    /\ row.short_url = req[p].candidate
                    /\ row.long_url = req[p].long_url
                    /\ row.visit_count = 0
                    /\ resp'[p].short_url = row.short_url
                    /\ resp'[p].visit_count = 0
      ]_vars

\* A create with an empty short_url answered 201 on its second pass
C8_Witness ==
    \E p \in Procs :
        /\ CreateDone(p)
        /\ req[p].posted = << >>
        /\ req[p].attempts = 2
        /\ resp[p].status = 201
        /\ \E pk \in 1..Len(store) :
              /\ store[pk].short_url = resp[p].short_url
              /\ Len(store[pk].short_url) = 6

\* C9: a create request with a valid long_url and an explicit valid short_url
\* that had a row when the request arrived writes nothing in any of its
\* steps, never reaches the insert, and is answered 409
\* SHORT_URL_ALREADY_EXISTS.
C9_ExistingShortUrl ==
    [][\A p \in Procs :
          ( /\ StepBy(p)
            /\ req'[p].op = "create"
            /\ req'[p].posted # << >>
            /\ is_valid_short_url(req'[p].posted)
            /\ is_valid_long_url(req'[p].long_url)
            /\ serializer_is_valid(req'[p].long_url, req'[p].posted)
            /\ ~req'[p].absent )
          => /\ store' = store
             /\ pc'[p] \in {"exists", "done"}
             /\ pc'[p] = "done" =>
                   /\ resp'[p].status = 409
                   /\ resp'[p].reason = "SHORT_URL_ALREADY_EXISTS"
                   /\ resp'[p].short_url = req'[p].posted
      ]_vars

\* A create answered 409 for a short_url whose row is as it was inserted
C9_Witness ==
    \E p \in Procs :
        /\ CreateDone(p)
        /\ ~req[p].absent
        /\ resp[p].status = 409
        /\ \E pk \in 1..Len(store) :
              /\ store[pk].short_url = req[p].posted
              /\ store[pk].visit_count = 1

\* C10: convert_to_absolute_url(convert_to_absolute_url(x)) =
\* convert_to_absolute_url(x) for every input string x.
C10_Idempotent ==
    Len(out) = 2 => out[2] = out[1]

\* C11: for every string made only of characters of [A-Za-z0-9],
\* is_valid_short_url accepts it exactly when its length is between 1 and 32
\* and it is not the string "api": length 32 is accepted, lengths 0 and 33
\* are rejected, "api" is rejected and "Api" is accepted.
C11_AlnumAccepted ==
    (out # << >> /\ AllIn(arg, CHAR_SET))
    => /\ out[1] <=> (Len(arg) >= 1 /\ Len(arg) <= 32 /\ arg # <<"a","p","i">>)
       /\ Len(arg) = 32 => out[1]
       /\ Len(arg) \in {0, 33} => ~out[1]
       /\ arg = <<"a","p","i">> => ~out[1]
       /\ arg = <<"A","p","i">> => out[1]

\* A code of 32 valid characters has been accepted
C11_Witness ==
    /\ out = <<TRUE>>
    /\ Len(arg) = 32
    /\ AllIn(arg, CHAR_SET)

\* C12: is_valid_short_url rejects every string that has at least one
\* character outside [A-Za-z0-9], at any position, a trailing newline
\* included.
C12_WholeStringMatch ==
    (out # << >> /\ ~AllIn(arg, CHAR_SET)) => ~out[1]

\* C13: every row is inserted with visit_count 0; in every step the
\* visit_count of every row that exists is at least what it was, and it
\* changes only in the step of a redirect that answers 302 for that row; the
\* steps of create, retrieve and list leave the visit_count of every row
\* unchanged.
C13_VisitCountMonotone ==
    [][/\ Len(store') >= Len(store)
       /\ \A pk \in (Len(store) + 1)..Len(store') : store'[pk].visit_count = 0
       /\ \A pk \in 1..Len(store) :
             /\ store'[pk].visit_count >= store[pk].visit_count
             /\ store'[pk].visit_count # store[pk].visit_count
                => \E p \in Procs : /\ pc[p] = "redirect_save"
                                    /\ pc'[p] = "done"
                                    /\ resp'[p].op = "redirect"
                                    /\ resp'[p].status = 302
                                    /\ req[p].pk = pk
      ]_vars

\* C14: a redirect or a retrieve of a valid short_url that no row has is
\* answered in one step with status 404, the retrieve with the title
\* 'short_url has no mapping', and that step leaves the store as it was: no
\* row is inserted and no field of a row changes.
C14_NoMapping ==
    [][\A p \in Procs :
          ( /\ StepBy(p)
            /\ pc[p] = "idle"
            /\ req'[p].op \in {"redirect", "retrieve"}
            /\ is_valid_short_url(req'[p].short_url)
            /\ ~exists(req'[p].short_url) )
          => /\ pc'[p] = "done"
             /\ resp'[p].status = 404
             /\ req'[p].op = "retrieve" =>
                   /\ resp'[p].reason = "SHORT_URL_MAPPING_NOT_EXISTS"
                   /\ resp'[p].title = "short_url has no mapping"
                   /\ resp'[p].short_url = req'[p].short_url
             /\ store' = store
      ]_vars

\* A redirect and a retrieve of valid short_urls without a row, both
\* answered 404, with a row of another short_url in the store
C14_Witness ==
    \E p, q \in Procs :
        /\ pc[p] = "done" /\ resp[p].op = "redirect" /\ resp[p].status = 404
        /\ pc[q] = "done" /\ resp[q].op = "retrieve" /\ resp[q].status = 404
        /\ resp[q].title = "short_url has no mapping"
        /\ is_valid_short_url(req[p].short_url) /\ ~exists(req[p].short_url)
        /\ is_valid_short_url(req[q].short_url) /\ ~exists(req[q].short_url)
        /\ store # << >>

\* url has a scheme and a network location
IsAbsolute(url) ==
    LET parts == urlsplit(url)
    IN  /\ ~parts.err
        /\ parts.scheme # << >>
        /\ parts.netloc # << >>

\* C15: in every reachable state the long_url of every row has a scheme and
\* a host; a create answered 201 for the bare host "w3.org" has stored
\* "http://w3.org" and one answered 201 for an absolute long_url has stored
\* it unchanged; no row holds a scheme-relative or a bare-host long_url.
C15_StoredAbsolute ==
    /\ \A pk \in 1..Len(store) :
          /\ IsAbsolute(store[pk].long_url)
          /\ ~StartsWith(store[pk].long_url, <<"/","/">>)
          /\ store[pk].long_url \notin {W3, NETLOC_W3, WTF}
    /\ \A p \in Procs :
          (CreateDone(p) /\ resp[p].status = 201)
          => /\ \E pk \in 1..Len(store) :
                   /\ store[pk].short_url = resp[p].short_url
                   /\ store[pk].long_url = resp[p].long_url
             /\ req[p].posted_long = W3 => resp[p].long_url = HTTP_W3
             /\ IsAbsolute(req[p].posted_long) => resp[p].long_url = req[p].posted_long

\* A create of "w3.org" answered 201 beside one of "http://w3.org" answered
\* 201, both rows holding "http://w3.org"
C15_Witness ==
    \E p, q \in Procs :
        /\ CreateDone(p) /\ resp[p].status = 201 /\ req[p].posted_long = W3
        /\ CreateDone(q) /\ resp[q].status = 201 /\ req[q].posted_long = HTTP_W3
        /\ Len(store) = 2
        /\ \A pk \in 1..Len(store) : store[pk].long_url = HTTP_W3

\* The rows whose serialized form is the record rec of a list response
RowsOf(rec) ==
    {pk \in 1..Len(store) : serialize(pk) = rec}

\* C16: the list operation answers exactly min(N, MAX_LIST_SIZE) records of
\* the N rows of the store, each row at most once, in descending order of
\* last_activity_time, and no row left out is more recently active than a
\* row listed; the step of a create that inserts a row and the step of a
\* redirect that answers 302 make that row the most recently active; the
\* list step changes nothing in the store.
C16_ListRecent ==
    [][\A p \in Procs :
          /\ (StepBy(p) /\ req'[p].op = "list")
             => LET list == resp'[p].list
                    N == Len(store)
                    listed == UNION {RowsOf(list[i]) : i \in 1..Len(list)}
                IN  /\ store' = store
                    /\ resp'[p].status = 200
                    /\ Len(list) = IF N <= 50 THEN N ELSE 50
                    /\ \A i \in 1..Len(list) : Cardinality(RowsOf(list[i])) = 1
                    /\ Cardinality(listed) = Len(list)
                    /\ \A i, j \in 1..Len(list) :
                          i < j => \A a \in RowsOf(list[i]), b \in RowsOf(list[j]) :
                                      store[a].last_activity_time > store[b].last_activity_time
                    /\ \A a \in listed, b \in (1..N) \ listed :
                          store[a].last_activity_time > store[b].last_activity_time
          /\ (StepBy(p) /\ pc'[p] = "done" /\ resp'[p].status \in {201, 302})
             => \E pk \in 1..Len(store') :
                   /\ store'[pk].short_url = resp'[p].short_url
                   /\ \A o \in (1..Len(store')) \ {pk} :
                         store'[pk].last_activity_time > store'[o].last_activity_time
      ]_vars

\* A list of a store of more than 50 rows, answered after a redirect of the
\* oldest row: 50 records, the redirected row first
C16_Witness ==
    \E p \in Procs :
        /\ pc[p] = "done"
        /\ resp[p].op = "list"
        /\ Len(store) > 50
        /\ Len(resp[p].list) = 50
        /\ resp[p].list[1].short_url = SHORT
        /\ resp[p].list[1].visit_count = 1

\* C17: in every step every row of the store stays in the store with the
\* short_url and the long_url it had; a row changes (its visit_count and its
\* last_activity_time) only in the step of a redirect that answers 302 for
\* that row.
C17_RecordsPersist ==
    [][/\ Len(store') >= Len(store)
       /\ \A pk \in 1..Len(store) :
             /\ store'[pk].short_url = store[pk].short_url
             /\ store'[pk].long_url = store[pk].long_url
             /\ store'[pk] # store[pk]
                => \E p \in Procs : /\ pc[p] = "redirect_save"
                                    /\ pc'[p] = "done"
                                    /\ resp'[p].op = "redirect"
                                    /\ resp'[p].status = 302
                                    /\ req[p].pk = pk
      ]_vars

\* A row that a redirect has rewritten beside a row inserted after it
C17_Witness ==
    /\ Len(store) = 2
    /\ store[1].visit_count >= 1
    /\ store[1].last_activity_time > store[2].last_activity_time
    /\ store[1].long_url = HTTP_W3
    /\ store[1].short_url # store[2].short_url

\* C18: a redirect whose lookup finds more than one row with the requested
\* short_url is answered 404 in that step, without a redirect to the
\* long_url of any of them, and the step changes no row: the visit_count of
\* each of those rows stays as it was.
C18_FailClosed ==
    [][\A p \in Procs :
          ( /\ StepBy(p)
            /\ pc[p] = "idle"
            /\ req'[p].op = "redirect"
            /\ Cardinality(filter(req'[p].short_url)) > 1 )
          => /\ pc'[p] = "done"
             /\ resp'[p].status = 404
             /\ resp'[p].long_url = << >>
             /\ store' = store
             /\ \A pk \in filter(req'[p].short_url) :
                   store'[pk].visit_count = store[pk].visit_count
      ]_vars

\* A redirect answered 404 for a short_url that two rows have
C18_Witness ==
    \E p \in Procs :
        /\ pc[p] = "done"
        /\ resp[p].op = "redirect"
        /\ resp[p].status = 404
        /\ Cardinality(filter(resp[p].short_url)) = 2

\* A code of 1 to 32 characters of [A-Za-z0-9]
WellFormedCode(code) ==
    /\ Len(code) >= 1
    /\ Len(code) <= 32
    /\ AllIn(code, CHAR_SET)

\* C19: create checks in a fixed order. A request whose normalized long_url
\* is invalid is answered INVALID_LONG_URL in its first step, whatever its
\* short_url, with no pass of the generator and no store access; a request
\* with a valid long_url and an explicit short_url that is not a well-formed
\* code or is the reserved word is answered INVALID_SHORT_URL in its first
\* step, before any existence check; SHORT_URL_ALREADY_EXISTS is answered
\* only to a request whose long_url is valid and whose code is well formed
\* and not reserved.
C19_CheckOrder ==
    [][\A p \in Procs :
          /\ ( /\ StepBy(p) /\ pc[p] = "idle" /\ req'[p].op = "create"
               /\ ~is_valid_long_url(req'[p].long_url) )
             => /\ pc'[p] = "done"
                /\ resp'[p].reason = "INVALID_LONG_URL"
                /\ req'[p].attempts = 0
                /\ store' = store
          /\ ( /\ StepBy(p) /\ pc[p] = "idle" /\ req'[p].op = "create"
               /\ is_valid_long_url(req'[p].long_url)
               /\ req'[p].posted # << >>
               /\ (~WellFormedCode(req'[p].posted) \/ req'[p].posted = <<"a","p","i">>) )
             => /\ pc'[p] = "done"
                /\ resp'[p].reason = "INVALID_SHORT_URL"
                /\ store' = store
          /\ ( /\ StepBy(p) /\ req'[p].op = "create" /\ pc'[p] = "done"
               /\ resp'[p].reason = "SHORT_URL_ALREADY_EXISTS" )
             => /\ is_valid_long_url(req'[p].long_url)
                /\ WellFormedCode(IF req'[p].posted = << >> THEN req'[p].candidate
                                                            ELSE req'[p].posted)
                /\ req'[p].posted # <<"a","p","i">>
      ]_vars

\* C20: a create request with an empty short_url and a valid long_url is
\* never answered SHORT_URL_ALREADY_EXISTS, whatever other create requests
\* do between its code generation and its insert: it is answered 201, or
\* INVALID_SHORT_URL when the generator is exhausted.
C20_GeneratedNeverConflicts ==
    \A p \in Procs :
        ( /\ CreateDone(p)
          /\ req[p].posted = << >>
          /\ is_valid_long_url(req[p].long_url)
          /\ URLValidator(req[p].long_url) )
        => /\ resp[p].reason # "SHORT_URL_ALREADY_EXISTS"
           /\ \/ resp[p].status = 201
              \/ resp[p].reason = "INVALID_SHORT_URL" /\ req[p].attempts = 5

\* C21: every code generate_random_short_url draws for the default length
\* has 6 characters of [A-Za-z0-9], pairwise distinct: a code with a repeated
\* character is never generated, also when the random source draws the same
\* index more than once.
C21_DistinctCharacters ==
    out # << >>
    => /\ Len(out[1]) = 6
       /\ AllIn(out[1], CHAR_SET)
       /\ \A i, j \in 1..Len(out[1]) : i # j => out[1][i] # out[1][j]

\* A code drawn with the same index at every selection
C21_Witness ==
    /\ out # << >>
    /\ \A i \in 1..Len(arg) : arg[i] = 0
    /\ Len(out[1]) = 6
    /\ out[1][1] = "a"
    /\ out[1][2] = "9"

====
